---- MODULE Spec2Model ----
(***************************************************************************)
(* FIFO cost-basis ledger (main.py): Item.take_at_most, Account,           *)
(* InfAccount, item_adapter.to_item and process.                           *)
(*                                                                         *)
(* Numbers.  Sizes are integer multiples of one size quantum.  Cost and    *)
(* fees are exact rationals [n, d] in lowest terms: the source computes    *)
(* them with Python floats, and the model computes the same expressions    *)
(* without rounding.                                                       *)
(*                                                                         *)
(* State.                                                                  *)
(*   items, ret, raised, op, held, net, short: one Account called through  *)
(*     deposit and withdraw (SpecAccount): its lot queue, the value the    *)
(*     last call returned, whether it raised, the call with its size and   *)
(*     the kind of the Lot passed, the size held before it, sizes          *)
(*     deposited less sizes requested so far, and whether some withdraw    *)
(*     asked for more than was held.  A caller may go on after a deposit   *)
(*     that raised.                                                        *)
(*   group, adapted, cdone: one output of group_by and what item_adapter   *)
(*     yields or raises for it (SpecClassify).                             *)
(*   accounts, profit, fees, nevents, pstatus, last: the locals of process *)
(*     (Spec): the accounts dict, the two totals, the number of turns of   *)
(*     the loop, running or aborted by an exception, and the group, event  *)
(*     and per-disposal amounts of the last turn.                          *)
(*   stream, gi, match, yielded, gdone: one run of the generator group_by  *)
(*     (SpecGroup): the row stream, the number of rows consumed, the       *)
(*     buffer match, what was yielded so far and whether it returned.      *)
(*   w_items, w_result, w_size, w_n, w_iters, w_pc: one call of            *)
(*     Account.withdraw taken one turn of its while loop at a time         *)
(*     (SpecWithdraw): self.items, result.items, the size asked for, the   *)
(*     number of lots at the call, the turns of the loop so far and        *)
(*     where the call is (loop, done or raised).                           *)
(***************************************************************************)
EXTENDS Integers, Sequences, FiniteSets, TLC

VARIABLES items, ret, raised, op, held, net, short,
          group, adapted, cdone,
          accounts, profit, fees, nevents, pstatus, last,
          stream, gi, match, yielded, gdone,
          w_items, w_result, w_size, w_n, w_iters, w_pc

acctVars == <<items, ret, raised, op, held, net, short>>

classVars == <<group, adapted, cdone>>

procVars == <<accounts, profit, fees, nevents, pstatus, last>>

groupVars == <<stream, gi, match, yielded, gdone>>

loopVars == <<w_items, w_result, w_size, w_n, w_iters, w_pc>>

vars == <<acctVars, classVars, procVars, groupVars, loopVars>>

(* ---------------- bounds ---------------- *)
MaxSize == 2
MaxCost == 1
MaxFee == 1
MaxLots == 2
MaxDebt == 1
MaxAmt == 2
MaxRows == 3
MaxEvents == 3
MaxStream == 4

(* ---------------- exact arithmetic ---------------- *)
Abs(x) == IF x < 0 THEN -x ELSE x

Max(a, b) == IF a >= b THEN a ELSE b

Min(a, b) == IF a <= b THEN a ELSE b

RECURSIVE GCD(_, _)
GCD(a, b) == IF b = 0 THEN a ELSE GCD(b, a % b)

Norm(n, d) ==
    LET g == GCD(Abs(n), d)
    IN  IF n = 0 THEN [n |-> 0, d |-> 1] ELSE [n |-> n \div g, d |-> d \div g]

R(i) == [n |-> i, d |-> 1]

RAdd(a, b) == Norm(a.n * b.d + b.n * a.d, a.d * b.d)

RSub(a, b) == Norm(a.n * b.d - b.n * a.d, a.d * b.d)

(* a * s / t for a rational a and integer sizes s, t with t > 0 *)
RScale(a, s, t) == Norm(a.n * s, a.d * t)

(* ---------------- Item ---------------- *)
Item(s, c, f, k, d) ==
    [size |-> s, cost |-> c, fees |-> f, kind |-> k, date |-> d]

NoItem == Item(0, R(0), R(0), "", "")

(* take_at_most with the fees of self left as they were after a partial take *)
take_at_most_keep_fees(self, size) ==
    IF size >= self.size
    THEN [raised |-> FALSE,
          taken |-> Item(self.size, self.cost, self.fees, self.kind, self.date),
          rest  |-> Item(0, R(0), R(0), self.kind, self.date)]
    ELSE IF self.size = 0
    THEN [raised |-> TRUE, taken |-> NoItem, rest |-> self]
    ELSE LET result == Item(size,
                            RScale(self.cost, size, self.size),
                            RScale(self.fees, size, self.size),
                            self.kind, self.date)
         IN  [raised |-> FALSE,
              taken |-> result,
              rest  |-> Item(self.size - result.size,
                             RSub(self.cost, result.cost),
                             self.fees,
                             self.kind, self.date)]

(* take_at_most with the whole cost of self given to a partial take *)
take_at_most_whole_cost(self, size) ==
    IF size >= self.size
    THEN [raised |-> FALSE,
          taken |-> Item(self.size, self.cost, self.fees, self.kind, self.date),
          rest  |-> Item(0, R(0), R(0), self.kind, self.date)]
    ELSE IF self.size = 0
    THEN [raised |-> TRUE, taken |-> NoItem, rest |-> self]
    ELSE LET result == Item(size,
                            self.cost,
                            RScale(self.fees, size, self.size),
                            self.kind, self.date)
         IN  [raised |-> FALSE,
              taken |-> result,
              rest  |-> Item(self.size - result.size,
                             RSub(self.cost, result.cost),
                             RSub(self.fees, result.fees),
                             self.kind, self.date)]

(* take_at_most that takes a lot whole only when the lot has a size *)
take_at_most_divides_zero_lot(self, size) ==
    IF self.size > 0 /\ size >= self.size
    THEN [raised |-> FALSE,
          taken |-> Item(self.size, self.cost, self.fees, self.kind, self.date),
          rest  |-> Item(0, R(0), R(0), self.kind, self.date)]
    ELSE IF self.size = 0
    THEN [raised |-> TRUE, taken |-> NoItem, rest |-> self]
    ELSE LET result == Item(size,
                            RScale(self.cost, size, self.size),
                            RScale(self.fees, size, self.size),
                            self.kind, self.date)
         IN  [raised |-> FALSE,
              taken |-> result,
              rest  |-> Item(self.size - result.size,
                             RSub(self.cost, result.cost),
                             RSub(self.fees, result.fees),
                             self.kind, self.date)]

(* Item.take_at_most: taken is the returned Item, rest is self after the   *)
(* in-place mutation; raised is the ZeroDivisionError of a division by     *)
(* self.size = 0, which leaves self as it was.                             *)
take_at_most(self, size) ==
    IF size >= self.size
    THEN [raised |-> FALSE,
          taken |-> Item(self.size, self.cost, self.fees, self.kind, self.date),
          rest  |-> Item(0, R(0), R(0), self.kind, self.date)]
    ELSE IF self.size = 0
    THEN [raised |-> TRUE, taken |-> NoItem, rest |-> self]
    ELSE LET result == Item(size,
                            RScale(self.cost, size, self.size),
                            RScale(self.fees, size, self.size),
                            self.kind, self.date)
         IN  [raised |-> FALSE,
              taken |-> result,
              rest  |-> Item(self.size - result.size,
                             RSub(self.cost, result.cost),
                             RSub(self.fees, result.fees),
                             self.kind, self.date)]

(* ---------------- Account ---------------- *)
RECURSIVE SumSize(_)
SumSize(its) == IF its = <<>> THEN 0 ELSE Head(its).size + SumSize(Tail(its))

RECURSIVE SumCost(_)
SumCost(its) == IF its = <<>> THEN R(0) ELSE RAdd(Head(its).cost, SumCost(Tail(its)))

RECURSIVE SumFees(_)
SumFees(its) == IF its = <<>> THEN R(0) ELSE RAdd(Head(its).fees, SumFees(Tail(its)))

effective_item(its, kind) == Item(SumSize(its), SumCost(its), SumFees(its), kind, "?")

(* deposit that appends the item before it raises *)
deposit_append_then_raise(its, kind, item) ==
    IF item.kind # kind
    THEN [raised |-> TRUE, items |-> Append(its, item)]
    ELSE [raised |-> FALSE, items |-> Append(its, item)]

(* deposit without the check of the kind *)
deposit_unchecked(its, kind, item) ==
    [raised |-> FALSE, items |-> Append(its, item)]

(* Account.deposit: raises on a kind mismatch, else appends. *)
deposit(its, kind, item) ==
    IF item.kind # kind
    THEN [raised |-> TRUE, items |-> its]
    ELSE [raised |-> FALSE, items |-> Append(its, item)]

(* withdraw_loop with an `if` for the `while`: one lot is looked at *)
withdraw_loop_once(its, res, kind, size) ==
    IF its = <<>> \/ SumSize(res) >= size
    THEN [raised |-> FALSE, items |-> its, result |-> res]
    ELSE LET t == take_at_most(Head(its), size - SumSize(res))
             d == deposit(res, kind, t.taken)
         IN  [raised |-> d.raised,
              items  |-> IF t.rest.size = 0 THEN Tail(its) ELSE <<t.rest>> \o Tail(its),
              result |-> d.items]

(* withdraw_loop taking from the newest lot (the back of the queue) *)
RECURSIVE withdraw_loop_lifo(_, _, _, _)
withdraw_loop_lifo(its, res, kind, size) ==
    IF its = <<>> \/ SumSize(res) >= size
    THEN [raised |-> FALSE, items |-> its, result |-> res]
    ELSE LET t == take_at_most(its[Len(its)], size - SumSize(res))
             d == deposit(res, kind, t.taken)
             front == SubSeq(its, 1, Len(its) - 1)
         IN  withdraw_loop_lifo(IF t.rest.size = 0 THEN front ELSE Append(front, t.rest),
                                d.items, kind, size)

(* withdraw_iter that leaves the front lot in the queue when it is used up *)
withdraw_iter_no_pop(its, res, kind, remaining) ==
    LET t == take_at_most(Head(its), remaining)
        d == deposit(res, kind, t.taken)
    IN  IF t.raised
        THEN [raised |-> TRUE, items |-> its, result |-> res]
        ELSE IF d.raised
        THEN [raised |-> TRUE, items |-> <<t.rest>> \o Tail(its), result |-> res]
        ELSE [raised |-> FALSE, items |-> <<t.rest>> \o Tail(its), result |-> d.items]

(* one turn of the while loop past the break: result.deposit(               *)
(* self.items[0].take_at_most(remaining)), then the pop of a front lot of   *)
(* size 0                                                                   *)
withdraw_iter(its, res, kind, remaining) ==
    LET t == take_at_most(Head(its), remaining)
        d == deposit(res, kind, t.taken)
    IN  IF t.raised
        THEN [raised |-> TRUE, items |-> its, result |-> res]
        ELSE IF d.raised
        THEN [raised |-> TRUE, items |-> <<t.rest>> \o Tail(its), result |-> res]
        ELSE [raised |-> FALSE,
              items |-> IF t.rest.size = 0 THEN Tail(its) ELSE <<t.rest>> \o Tail(its),
              result |-> d.items]

(* loop_next: the loop goes on from the state s that a turn left *)
RECURSIVE withdraw_loop(_, _, _, _)
loop_next(s, kind, size) ==
    IF s.raised THEN s ELSE withdraw_loop(s.items, s.result, kind, size)

(* The while loop of Account.withdraw; res is result.items. *)
withdraw_loop(its, res, kind, size) ==
    IF its = <<>>
    THEN [raised |-> FALSE, items |-> its, result |-> res]
    ELSE IF SumSize(res) >= size
    THEN [raised |-> FALSE, items |-> its, result |-> res]
    ELSE loop_next(withdraw_iter(its, res, kind, size - SumSize(res)), kind, size)

(* Account.withdraw: the value returned is result.effective_item(). *)
withdraw(its, kind, size) ==
    LET w == withdraw_loop(its, <<>>, kind, size)
    IN  [raised |-> w.raised, items |-> w.items,
         value |-> effective_item(w.result, kind)]

(* ---------------- rows, events, item_adapter ---------------- *)
Units == {"USD", "BTC", "ETH"}

(* str.lower on the unit symbols *)
Lower(u) ==
    CASE u = "USD" -> "usd"
      [] u = "BTC" -> "btc"
      [] u = "LTC" -> "ltc"
      [] u = "ETH" -> "eth"
      [] OTHER -> u

Row(type, tid, amount, unit, time) ==
    [type |-> type, tid |-> tid, amount |-> amount, unit |-> unit, time |-> time]

Transfer(src, src_size, dest, dest_size) ==
    [src |-> src, src_size |-> src_size, dest |-> dest, dest_size |-> dest_size]

NoTransfer == Transfer("", 0, "", 0)

(* what item_adapter yields: isinstance(item, Transfer) is the tag *)
TransferEvent(t) == [isTransfer |-> TRUE, item |-> NoItem, transfer |-> t]

ItemEvent(i) == [isTransfer |-> FALSE, item |-> i, transfer |-> NoTransfer]

SetMin(S) == CHOOSE x \in S : \A y \in S : x <= y

(* next(iter(filter(...))): the index of the first row found, 0 for StopIteration *)
FirstSrc(rows) ==
    LET S == { i \in 1..Len(rows) : rows[i].type = "match" /\ rows[i].amount < 0 }
    IN  IF S = {} THEN 0 ELSE SetMin(S)

FirstDest(rows) ==
    LET S == { i \in 1..Len(rows) : rows[i].type = "match" /\ rows[i].amount > 0 }
    IN  IF S = {} THEN 0 ELSE SetMin(S)

FirstFee(rows) ==
    LET S == { i \in 1..Len(rows) : rows[i].type = "fee" }
    IN  IF S = {} THEN 0 ELSE SetMin(S)

(* to_item with the sale and the purchase branch exchanged *)
to_item_swapped(inpro_match) ==
    LET si == FirstSrc(inpro_match)
        di == FirstDest(inpro_match)
        fi == FirstFee(inpro_match)
    IN  IF si = 0 \/ di = 0
        THEN [raised |-> TRUE, out |-> <<>>]
        ELSE LET src == inpro_match[si]
                 dest == inpro_match[di]
                 feeAmount == IF fi = 0 THEN 0 ELSE inpro_match[fi].amount
             IN  IF "USD" \notin {src.unit, dest.unit}
                 THEN [raised |-> FALSE,
                       out |-> <<TransferEvent(Transfer(Lower(src.unit), Abs(src.amount),
                                                        Lower(dest.unit), Abs(dest.amount)))>>]
                 ELSE LET usd == IF src.unit = "USD" THEN src ELSE dest
                          acct == IF src.unit = "USD" THEN dest ELSE src
                          item == Item(Abs(acct.amount), R(Abs(usd.amount)),
                                       R(Abs(feeAmount)), Lower(acct.unit), usd.time)
                      IN  IF usd.amount < 0
                          THEN [raised |-> FALSE,
                                out |-> <<ItemEvent([item EXCEPT !.size = -item.size])>>]
                          ELSE [raised |-> FALSE, out |-> <<ItemEvent(item)>>]

(* to_item with the size of a sale left positive *)
to_item_unsigned(inpro_match) ==
    LET si == FirstSrc(inpro_match)
        di == FirstDest(inpro_match)
        fi == FirstFee(inpro_match)
    IN  IF si = 0 \/ di = 0
        THEN [raised |-> TRUE, out |-> <<>>]
        ELSE LET src == inpro_match[si]
                 dest == inpro_match[di]
                 feeAmount == IF fi = 0 THEN 0 ELSE inpro_match[fi].amount
             IN  IF "USD" \notin {src.unit, dest.unit}
                 THEN [raised |-> FALSE,
                       out |-> <<TransferEvent(Transfer(Lower(src.unit), Abs(src.amount),
                                                        Lower(dest.unit), Abs(dest.amount)))>>]
                 ELSE LET usd == IF src.unit = "USD" THEN src ELSE dest
                          acct == IF src.unit = "USD" THEN dest ELSE src
                          item == Item(Abs(acct.amount), R(Abs(usd.amount)),
                                       R(Abs(feeAmount)), Lower(acct.unit), usd.time)
                      IN  IF usd.amount > 0
                          THEN [raised |-> FALSE,
                                out |-> <<ItemEvent(item)>>]
                          ELSE [raised |-> FALSE, out |-> <<ItemEvent(item)>>]

(* item_adapter.to_item: raised is the StopIteration of a missing leg, out  *)
(* the value returned (always truthy, so always yielded).                   *)
to_item(inpro_match) ==
    LET si == FirstSrc(inpro_match)
        di == FirstDest(inpro_match)
        fi == FirstFee(inpro_match)
    IN  IF si = 0 \/ di = 0
        THEN [raised |-> TRUE, out |-> <<>>]
        ELSE LET src == inpro_match[si]
                 dest == inpro_match[di]
                 feeAmount == IF fi = 0 THEN 0 ELSE inpro_match[fi].amount
             IN  IF "USD" \notin {src.unit, dest.unit}
                 THEN [raised |-> FALSE,
                       out |-> <<TransferEvent(Transfer(Lower(src.unit), Abs(src.amount),
                                                        Lower(dest.unit), Abs(dest.amount)))>>]
                 ELSE LET usd == IF src.unit = "USD" THEN src ELSE dest
                          acct == IF src.unit = "USD" THEN dest ELSE src
                          item == Item(Abs(acct.amount), R(Abs(usd.amount)),
                                       R(Abs(feeAmount)), Lower(acct.unit), usd.time)
                      IN  IF usd.amount > 0
                          THEN [raised |-> FALSE,
                                out |-> <<ItemEvent([item EXCEPT !.size = -item.size])>>]
                          ELSE [raised |-> FALSE, out |-> <<ItemEvent(item)>>]

(* what group_by hands to item_adapter: a list of rows, or one row *)
ListGroup(rows) == [isList |-> TRUE, rows |-> rows]

Standalone(row) == [isList |-> FALSE, rows |-> <<row>>]

(* the body of item_adapter's for loop for one output of group_by *)
adapt(g) ==
    IF g.isList
    THEN to_item(g.rows)
    ELSE LET row == g.rows[1]
         IN  IF row.type = "deposit"
             THEN [raised |-> FALSE,
                   out |-> <<TransferEvent(Transfer("inf_" \o Lower(row.unit), Abs(row.amount),
                                                    Lower(row.unit), Abs(row.amount)))>>]
             ELSE IF row.type = "withdrawal"
             THEN [raised |-> FALSE,
                   out |-> <<TransferEvent(Transfer(Lower(row.unit), Abs(row.amount),
                                                    "inf_" \o Lower(row.unit), Abs(row.amount)))>>]
             ELSE [raised |-> FALSE, out |-> <<>>]

(* ---------------- group_by ---------------- *)
Times == <<"t1", "t2", "t3", "t4", "t5">>

(* the value of fn(item): None, or an int *)
None == [isNone |-> TRUE, v |-> 0]

Some(n) == [isNone |-> FALSE, v |-> n]

(* int(tid) on the trade ids of the streams *)
int(tid) ==
    CASE tid = "1" -> 1
      [] tid = "01" -> 1
      [] tid = "2" -> 2

trade_id_or_none(item) ==
    IF item.tid # "" THEN Some(int(item.tid)) ELSE None

(* group_by_row that yields a row without a key ahead of the open buffer *)
group_by_row_no_flush(m, item) ==
    LET item_grp == trade_id_or_none(item)
    IN  IF item_grp = None
        THEN [yield |-> <<Standalone(item)>>, match |-> m]
        ELSE IF m = <<>> \/ trade_id_or_none(m[1]) = item_grp
        THEN [yield |-> <<>>, match |-> Append(m, item)]
        ELSE [yield |-> <<ListGroup(m)>>, match |-> <<item>>]

(* one turn of group_by's for loop with the buffer m: what it yields, in    *)
(* order, and the buffer after it                                           *)
group_by_row(m, item) ==
    LET item_grp == trade_id_or_none(item)
    IN  IF item_grp = None
        THEN [yield |-> (IF m # <<>> THEN <<ListGroup(m)>> ELSE <<>>) \o <<Standalone(item)>>,
              match |-> <<>>]
        ELSE IF m = <<>> \/ trade_id_or_none(m[1]) = item_grp
        THEN [yield |-> <<>>, match |-> Append(m, item)]
        ELSE IF m # <<>>
        THEN [yield |-> <<ListGroup(m)>>, match |-> <<item>>]
        ELSE [yield |-> <<>>, match |-> m]

(* group_by_end that forgets the open buffer *)
group_by_end_drops(m) == <<>>

(* after the loop: `if match: yield match` *)
group_by_end(m) == IF m # <<>> THEN <<ListGroup(m)>> ELSE <<>>

(* ---------------- the classifier applied to one group ---------------- *)

Amounts == (-MaxAmt)..MaxAmt

(* rows of one trade id: match rows in any unit, fee rows, in any order;   *)
(* the i-th row carries the i-th timestamp                                 *)
TradeRows(i) ==
    { Row("match", "1", a, u, Times[i]) : a \in Amounts, u \in Units }
    \cup { Row("fee", "1", a, "USD", Times[i]) : a \in Amounts }

StandaloneRows ==
    { Row(ty, "", a, u, Times[1]) :
        ty \in {"deposit", "withdrawal", "match", "fee"}, a \in Amounts, u \in Units }

NoAdapted == [raised |-> FALSE, out |-> <<>>]

(* an entry of the accounts dict: inf tells an InfAccount from an Account *)
InfAccount(kind, basis) == [inf |-> TRUE, kind |-> kind, basis |-> basis, items |-> <<>>]

Account(kind) == [inf |-> FALSE, kind |-> kind, basis |-> R(0), items |-> <<>>]

PreBound ==
    [k \in {"usd", "inf_usd", "inf_btc", "inf_ltc"} |->
        CASE k = "usd" -> InfAccount("usd", R(1))
          [] k = "inf_usd" -> InfAccount("usd", R(1))
          [] k = "inf_btc" -> InfAccount("inf_btc", R(0))
          [] k = "inf_ltc" -> InfAccount("inf_ltc", R(0))]

NoStep == [raised |-> FALSE, disposal |-> FALSE, matched |-> NoItem,
           pprofit |-> R(0), pfee |-> R(0)]

NoLast == [group |-> ListGroup(<<>>), adapted |-> NoAdapted, step |-> NoStep]

ProcIdle ==
    /\ accounts = PreBound
    /\ profit = R(0)
    /\ fees = R(0)
    /\ nevents = 0
    /\ pstatus = "idle"
    /\ last = NoLast

NoOp == [name |-> "none", size |-> 0, n |-> 0, kind |-> ""]

AcctIdle ==
    /\ items = <<>>
    /\ ret = NoItem
    /\ raised = FALSE
    /\ op = NoOp
    /\ held = 0
    /\ net = 0
    /\ short = FALSE

ClassIdle ==
    /\ group = ListGroup(<<>>)
    /\ adapted = NoAdapted
    /\ cdone = FALSE

GroupIdle ==
    /\ stream = <<>>
    /\ gi = 0
    /\ match = <<>>
    /\ yielded = <<>>
    /\ gdone = FALSE

LoopIdle ==
    /\ w_items = <<>>
    /\ w_result = <<>>
    /\ w_size = 0
    /\ w_n = 0
    /\ w_iters = 0
    /\ w_pc = "idle"

(* ---------------- group_by run over a row stream ---------------- *)
(* the trade id column of the streams: empty, or digits *)
Tids == {"", "1", "01", "2"}

(* the row streams: the i-th row carries the i-th timestamp *)
StreamInputs ==
    UNION { { [i \in 1..n |-> Row("match", t[i], 1, "BTC", Times[i])] : t \in [1..n -> Tids] } :
            n \in 0..MaxStream }

GroupInit ==
    /\ AcctIdle
    /\ ClassIdle
    /\ ProcIdle
    /\ LoopIdle
    /\ stream \in StreamInputs
    /\ gi = 0
    /\ match = <<>>
    /\ yielded = <<>>
    /\ gdone = FALSE

(* the generator consumes the next row *)
GroupRow ==
    /\ ~gdone
    /\ gi < Len(stream)
    /\ LET g == group_by_row(match, stream[gi + 1])
       IN  /\ yielded' = yielded \o g.yield
           /\ match' = g.match
    /\ gi' = gi + 1
    /\ UNCHANGED <<stream, gdone, acctVars, classVars, procVars, loopVars>>

(* the stream is exhausted: the last buffer is yielded and group_by returns *)
GroupEnd ==
    /\ ~gdone
    /\ gi = Len(stream)
    /\ yielded' = yielded \o group_by_end(match)
    /\ match' = match
    /\ gdone' = TRUE
    /\ UNCHANGED <<stream, gi, acctVars, classVars, procVars, loopVars>>

GroupNext ==
    \/ GroupRow
    \/ GroupEnd

SpecGroup == GroupInit /\ [][GroupNext]_vars

(* ---------------- claims about group_by ---------------- *)
RECURSIVE Flatten(_)
Flatten(outs) == IF outs = <<>> THEN <<>> ELSE Head(outs).rows \o Flatten(Tail(outs))

(* a Group: a non-empty list whose rows share one key that is not None *)
IsGroup(o) ==
    /\ o.isList
    /\ o.rows # <<>>
    /\ trade_id_or_none(o.rows[1]) # None
    /\ \A i \in 1..Len(o.rows) : trade_id_or_none(o.rows[i]) = trade_id_or_none(o.rows[1])

(* a Standalone: one row, not in a list, whose key is None *)
IsStandalone(o) ==
    /\ ~o.isList
    /\ Len(o.rows) = 1
    /\ trade_id_or_none(o.rows[1]) = None

(* C13: group_by yields one Group per maximal run of contiguous rows with   *)
(* the same key other than None; a row whose key is None flushes the open   *)
(* buffer and is yielded standalone at once, so that it is in neither of    *)
(* the Groups around it and these are two Groups; a Standalone is never     *)
(* equal to a one-row Group.                                                *)
C13_GroupingContiguity ==
    /\ \A i \in 1..Len(yielded) : IsGroup(yielded[i]) \/ IsStandalone(yielded[i])
    /\ \A i \in 1..(Len(yielded) - 1) :
          (yielded[i].isList /\ yielded[i + 1].isList) =>
              trade_id_or_none(yielded[i].rows[1]) # trade_id_or_none(yielded[i + 1].rows[1])
    /\ (gi > 0 /\ trade_id_or_none(stream[gi]) = None) =>
          /\ match = <<>>
          /\ yielded # <<>>
          /\ yielded[Len(yielded)] = Standalone(stream[gi])
          /\ Flatten(yielded) = SubSeq(stream, 1, gi)
    /\ (~gdone /\ match # <<>>) =>
          /\ trade_id_or_none(match[1]) # None
          /\ \A i \in 1..Len(match) : trade_id_or_none(match[i]) = trade_id_or_none(match[1])
          /\ (yielded # <<>> /\ yielded[Len(yielded)].isList) =>
                trade_id_or_none(yielded[Len(yielded)].rows[1]) # trade_id_or_none(match[1])
    /\ gdone => Flatten(yielded) = stream
    /\ \A i \in 1..Len(yielded) :
          \A j \in 1..Len(stream) : ~yielded[i].isList => yielded[i] # ListGroup(<<stream[j]>>)

(* rows with ids 1, 1, none, 1: the Group of the first two, the third row   *)
(* standalone, and a second Group for the fourth                            *)
C13_Witness ==
    /\ gdone
    /\ Len(stream) = 4
    /\ stream[1].tid = "1"
    /\ stream[2].tid = "1"
    /\ stream[3].tid = ""
    /\ stream[4].tid = "1"
    /\ yielded = <<ListGroup(<<stream[1], stream[2]>>), Standalone(stream[3]), ListGroup(<<stream[4]>>)>>

(* C19: group_by loses, duplicates and reorders nothing: what was yielded,  *)
(* each Group's rows in order and each Standalone as itself, followed by    *)
(* the open buffer is the part of the stream consumed, and what was yielded *)
(* is the whole stream once group_by has returned; every Group is non-empty with one key that   *)
(* is not None, every Standalone has the key None.                          *)
C19_GroupByLosesNothing ==
    /\ ~gdone => (Flatten(yielded) \o match = SubSeq(stream, 1, gi))
    /\ gdone => (gi = Len(stream) /\ Flatten(yielded) = stream)
    /\ \A i \in 1..Len(yielded) :
          IF yielded[i].isList THEN IsGroup(yielded[i]) ELSE IsStandalone(yielded[i])

(* a stream of the longest length, its ids 1 and 01 in one Group, that came *)
(* out as three outputs ending with a Group                                 *)
C19_Witness ==
    /\ gdone
    /\ Len(stream) = MaxStream
    /\ Len(yielded) = 3
    /\ stream[1].tid = "1"
    /\ stream[2].tid = "01"
    /\ yielded[1] = ListGroup(<<stream[1], stream[2]>>)
    /\ ~yielded[2].isList
    /\ yielded[3].isList

(* group_by hands over either one standalone row or the rows of one trade *)
(* id, gathered one row at a time                                           *)
ClassInit ==
    /\ AcctIdle
    /\ ProcIdle
    /\ GroupIdle
    /\ LoopIdle
    /\ group \in { ListGroup(<<>>) } \cup { Standalone(row) : row \in StandaloneRows }
    /\ adapted = NoAdapted
    /\ cdone = FALSE

AddRow(r) ==
    /\ ~cdone
    /\ group.isList
    /\ Len(group.rows) < MaxRows
    /\ group' = ListGroup(Append(group.rows, r))
    /\ UNCHANGED <<adapted, cdone, acctVars, procVars, groupVars, loopVars>>

Adapt ==
    /\ ~cdone
    /\ Len(group.rows) >= 1
    /\ adapted' = adapt(group)
    /\ cdone' = TRUE
    /\ UNCHANGED <<group, acctVars, procVars, groupVars, loopVars>>

ClassNext ==
    \/ \E r \in TradeRows(Len(group.rows) + 1) : AddRow(r)
    \/ Adapt

SpecClassify == ClassInit /\ [][ClassNext]_vars

(* ---------------- claims about classification ---------------- *)
UsdLegs(rows) == { i \in 1..Len(rows) : rows[i].type = "match" /\ rows[i].unit = "USD" }

AssetLegs(rows) == { i \in 1..Len(rows) : rows[i].type = "match" /\ rows[i].unit # "USD" }

OneFiatOneAsset(rows) == Cardinality(UsdLegs(rows)) = 1 /\ Cardinality(AssetLegs(rows)) = 1

FiatLeg(rows) == rows[CHOOSE i \in UsdLegs(rows) : TRUE]

AssetLeg(rows) == rows[CHOOSE i \in AssetLegs(rows) : TRUE]

FeeAmount(rows) == IF FirstFee(rows) = 0 THEN 0 ELSE rows[FirstFee(rows)].amount

(* the result is one Lot event with this size, and the cost, fees, kind and *)
(* date the rule gives for the two legs                                     *)
IsLotEvent(a, rows, size) ==
    /\ ~a.raised
    /\ Len(a.out) = 1
    /\ ~a.out[1].isTransfer
    /\ a.out[1].item.size = size
    /\ a.out[1].item.cost = R(Abs(FiatLeg(rows).amount))
    /\ a.out[1].item.fees = R(Abs(FeeAmount(rows)))
    /\ a.out[1].item.kind = Lower(AssetLeg(rows).unit)
    /\ a.out[1].item.date = FiatLeg(rows).time

(* C7: a group that lacks a required leg (no asset leg, no match row with a *)
(* negative amount, or no match row with a positive amount) never raises:   *)
(* it is dropped with no event.                                             *)
LacksLeg(rows) ==
    \/ AssetLegs(rows) = {}
    \/ FirstSrc(rows) = 0
    \/ FirstDest(rows) = 0

C7_IncompleteGroupDropped ==
    (cdone /\ group.isList /\ LacksLeg(group.rows)) =>
        /\ ~adapted.raised
        /\ adapted.out = <<>>

Invert(rows) == [i \in 1..Len(rows) |-> [rows[i] EXCEPT !.amount = -rows[i].amount]]

(* C9 as stated: a negative fiat leg with a positive asset leg is a Sale    *)
(* (size = -asset amount, cost = |fiat amount|) and the sign-inverted group *)
(* is a Purchase.                                                           *)
C9_SignRuleAsStated ==
    (cdone /\ group.isList /\ OneFiatOneAsset(group.rows)
        /\ FiatLeg(group.rows).amount < 0 /\ AssetLeg(group.rows).amount > 0) =>
        /\ IsLotEvent(adapted, group.rows, -AssetLeg(group.rows).amount)
        /\ IsLotEvent(to_item(Invert(group.rows)), Invert(group.rows),
                      AssetLeg(group.rows).amount)

(* C9 amended: a positive fiat leg with a negative asset leg is a Sale      *)
(* (size = -|asset amount|, cost = |fiat amount|) and the sign-inverted     *)
(* group is a Purchase (size = |asset amount|).                             *)
C9_SignRule ==
    (cdone /\ group.isList /\ OneFiatOneAsset(group.rows)
        /\ FiatLeg(group.rows).amount > 0 /\ AssetLeg(group.rows).amount < 0) =>
        /\ IsLotEvent(adapted, group.rows, AssetLeg(group.rows).amount)
        /\ IsLotEvent(to_item(Invert(group.rows)), Invert(group.rows),
                      -AssetLeg(group.rows).amount)

(* a two-row sale, the asset leg listed first, and its inverse a purchase *)
C9_Witness ==
    /\ cdone
    /\ group.isList
    /\ Len(group.rows) = 2
    /\ group.rows[1].type = "match"
    /\ group.rows[1].unit = "ETH"
    /\ group.rows[1].amount < 0
    /\ group.rows[2].type = "match"
    /\ group.rows[2].unit = "USD"
    /\ group.rows[2].amount > 0
    /\ adapted.out[1].item.size = group.rows[1].amount
    /\ to_item(Invert(group.rows)).out[1].item.size > 0

(* ---------------- one Account driven through its interface ---------------- *)
AcctKind == "btc"

(* Lots that reach Account.deposit: a positive size with any cost and fees, *)
(* or the all-zero lot of a zero-amount transfer.                           *)
LotInputs ==
    { Item(s, R(c), R(f), AcctKind, dt) :
        s \in 1..MaxSize, c \in 0..MaxCost, f \in {0, MaxFee}, dt \in {"d1"} }
    \cup { Item(0, R(0), R(0), AcctKind, "?") }

(* Lots of another kind, which only a caller other than process passes *)
ForeignLots == { Item(s, R(MaxCost), R(MaxFee), "eth", "d1") : s \in {1, MaxSize} }

AcctInit ==
    /\ AcctIdle
    /\ ClassIdle
    /\ GroupIdle
    /\ LoopIdle
    /\ ProcIdle

Deposit(item) ==
    /\ Len(items) < MaxLots
    /\ net + item.size <= MaxLots * (MaxSize + 1)
    /\ LET d == deposit(items, AcctKind, item)
       IN  /\ items' = d.items
           /\ raised' = d.raised
           /\ net' = IF d.raised THEN net ELSE net + item.size
    /\ ret' = NoItem
    /\ op' = [name |-> "deposit", size |-> item.size, n |-> Len(items), kind |-> item.kind]
    /\ held' = SumSize(items)
    /\ UNCHANGED <<short, classVars, procVars, groupVars, loopVars>>

Withdraw(size) ==
    /\ net - size >= -MaxDebt
    /\ LET w == withdraw(items, AcctKind, size)
       IN  /\ items' = w.items
           /\ raised' = w.raised
           /\ ret' = w.value
    /\ op' = [name |-> "withdraw", size |-> size, n |-> Len(items), kind |-> AcctKind]
    /\ held' = SumSize(items)
    /\ net' = net - size
    /\ short' = (short \/ size > SumSize(items))
    /\ UNCHANGED <<classVars, procVars, groupVars, loopVars>>

AcctNext ==
    \/ \E item \in LotInputs \cup ForeignLots : Deposit(item)
    \/ \E size \in 0..(MaxSize + 1) : Withdraw(size)

SpecAccount == AcctInit /\ [][AcctNext]_vars

(* ---------------- Account.withdraw, one turn of its loop at a time ---------------- *)
(* more turns than the loop takes for a queue of MaxLots lots *)
MaxIters == MaxLots + 3

(* the lots of the queues: every size, with a cost and fees, and the lot of *)
(* a zero-amount transfer                                                   *)
QueueLots ==
    { Item(s, R(MaxCost), R(MaxFee), AcctKind, "d1") : s \in 1..MaxSize }
    \cup { Item(0, R(0), R(0), AcctKind, "?") }

(* the queues an Account can hold: up to MaxLots lots that were deposited *)
QueueInputs == UNION { [1..n -> QueueLots] : n \in 0..MaxLots }

(* the call withdraw(size): result = Account(self.kind) *)
LoopInit ==
    /\ AcctIdle
    /\ ClassIdle
    /\ ProcIdle
    /\ GroupIdle
    /\ w_items \in QueueInputs
    /\ w_size \in (-1)..(MaxLots * MaxSize + 1)
    /\ w_result = <<>>
    /\ w_n = Len(w_items)
    /\ w_iters = 0
    /\ w_pc = "loop"

(* `while self.items:` is false: return result.effective_item() *)
LoopExit ==
    /\ w_pc = "loop"
    /\ w_items = <<>>
    /\ w_pc' = "done"
    /\ UNCHANGED <<w_items, w_result, w_size, w_n, w_iters, acctVars, classVars, procVars, groupVars>>

(* a turn that finds taken >= size: break *)
LoopBreak ==
    /\ w_pc = "loop"
    /\ w_items # <<>>
    /\ w_iters < MaxIters
    /\ SumSize(w_result) >= w_size
    /\ w_iters' = w_iters + 1
    /\ w_pc' = "done"
    /\ UNCHANGED <<w_items, w_result, w_size, w_n, acctVars, classVars, procVars, groupVars>>

(* a turn that takes from the front lot *)
LoopTake ==
    /\ w_pc = "loop"
    /\ w_items # <<>>
    /\ w_iters < MaxIters
    /\ SumSize(w_result) < w_size
    /\ LET it == withdraw_iter(w_items, w_result, AcctKind, w_size - SumSize(w_result))
       IN  /\ w_items' = it.items
           /\ w_result' = it.result
           /\ w_pc' = IF it.raised THEN "raised" ELSE "loop"
    /\ w_iters' = w_iters + 1
    /\ UNCHANGED <<w_size, w_n, acctVars, classVars, procVars, groupVars>>

LoopNext ==
    \/ LoopExit
    \/ LoopBreak
    \/ LoopTake

(* the interpreter goes on running the call *)
SpecWithdraw == LoopInit /\ [][LoopNext]_vars /\ WF_vars(LoopNext)

(* ---------------- claims about the loop of withdraw ---------------- *)
(* a turn that takes from a front lot of size 0 *)
ZeroLotTurn ==
    /\ w_pc = "loop"
    /\ w_items # <<>>
    /\ w_items[1].size = 0
    /\ w_iters' = w_iters + 1
    /\ SumSize(w_result) < w_size

(* C17: take_at_most on a Lot of size 0 never divides by zero, whatever     *)
(* size withdraw was asked for and whatever is left to take, and returns a  *)
(* taken Lot of size 0, cost 0 and fees 0.                                  *)
ZeroSizeSplit ==
    ZeroLotTurn =>
        /\ ~take_at_most(w_items[1], w_size - SumSize(w_result)).raised
        /\ w_pc' # "raised"
        /\ Len(w_result') = Len(w_result) + 1
        /\ w_result'[Len(w_result')].size = 0
        /\ w_result'[Len(w_result')].cost = R(0)
        /\ w_result'[Len(w_result')].fees = R(0)
        /\ w_items' = Tail(w_items)

LoopTurn == w_pc = "loop" /\ w_iters' = w_iters + 1

(* C18: Account.withdraw terminates for every queue and every size asked    *)
(* for: every turn of the loop removes the front lot or brings the size     *)
(* accumulated up to the size asked for, a front lot looked at is never     *)
(* left there with size 0, the loop takes at most (number of lots + 1)      *)
(* turns, and the call returns.                                             *)
LoopProgress ==
    LoopTurn =>
        /\ \/ Len(w_items') = Len(w_items) - 1
           \/ SumSize(w_result') >= w_size
        /\ (w_items' # <<>> /\ Len(w_items') = Len(w_items) /\ w_items' # w_items) =>
              w_items'[1].size > 0

InfAccount_withdraw_no_basis(self, size) ==
    Item(size, R(size), R(0), self.kind, "?")

InfAccount_withdraw(self, size) ==
    Item(size, RScale(self.basis, size, 1), R(0), self.kind, "?")

(* self after a call that left w.items in it *)
Mutated(self, w) == [raised |-> w.raised, acct |-> [self EXCEPT !.items = w.items]]

(* src.withdraw(size) on whichever class the dict entry has: acct is self   *)
(* after the call, value what it returned                                   *)
WithValue(self, w) ==
    [raised |-> w.raised, acct |-> [self EXCEPT !.items = w.items], value |-> w.value]

acct_withdraw(self, size) ==
    IF self.inf
    THEN [raised |-> FALSE, acct |-> self, value |-> InfAccount_withdraw(self, size)]
    ELSE WithValue(self, withdraw(self.items, self.kind, size))

(* acct_deposit with an InfAccount that keeps what is deposited into it *)
acct_deposit_inf_keeps(self, item) ==
    IF self.inf
    THEN [raised |-> FALSE, acct |-> [self EXCEPT !.items = Append(@, item)]]
    ELSE Mutated(self, deposit(self.items, self.kind, item))

(* dest.deposit(item): InfAccount.deposit is `pass` *)
acct_deposit(self, item) ==
    IF self.inf
    THEN [raised |-> FALSE, acct |-> self]
    ELSE Mutated(self, deposit(self.items, self.kind, item))

(* account.effective_item() on whichever class the dict entry has *)
acct_effective_item(self) ==
    IF self.inf THEN Item(0, R(0), R(0), self.kind, "?")
    ELSE effective_item(self.items, self.kind)

(* ensure_account that makes every new Account a btc Account *)
ensure_account_one_kind(accts, kind) ==
    IF kind \notin DOMAIN accts THEN accts @@ (kind :> Account("btc")) ELSE accts

ensure_account(accts, kind) ==
    IF kind \notin DOMAIN accts THEN accts @@ (kind :> Account(kind)) ELSE accts

(* dest.deposit(Item(...)) of a Transfer, a3 the accounts after src.withdraw *)
transfer_deposit(a3, t, d) ==
    IF d.raised THEN [accounts |-> a3, step |-> [NoStep EXCEPT !.raised = TRUE]]
    ELSE [accounts |-> [a3 EXCEPT ![t.dest] = d.acct], step |-> NoStep]

(* transfer_withdraw with the cost and fees rescaled to dest_size *)
transfer_withdraw_rescaled(a2, t, w) ==
    IF w.raised
    THEN [accounts |-> [a2 EXCEPT ![t.src] = w.acct],
          step |-> [NoStep EXCEPT !.raised = TRUE]]
    ELSE transfer_deposit([a2 EXCEPT ![t.src] = w.acct], t,
             acct_deposit([a2 EXCEPT ![t.src] = w.acct][t.dest],
                          Item(t.dest_size,
                               RScale(w.value.cost, t.dest_size, Max(1, t.src_size)),
                               RScale(w.value.fees, t.dest_size, Max(1, t.src_size)),
                               t.dest, "?")))

(* effective_item = src.withdraw(item.src_size), then the deposit of a new *)
(* Item of dest_size with the cost and fees withdrawn                       *)
transfer_withdraw(a2, t, w) ==
    IF w.raised
    THEN [accounts |-> [a2 EXCEPT ![t.src] = w.acct],
          step |-> [NoStep EXCEPT !.raised = TRUE]]
    ELSE transfer_deposit([a2 EXCEPT ![t.src] = w.acct], t,
             acct_deposit([a2 EXCEPT ![t.src] = w.acct][t.dest],
                          Item(t.dest_size, w.value.cost, w.value.fees, t.dest, "?")))

with_accounts(a2, t) == transfer_withdraw(a2, t, acct_withdraw(a2[t.src], t.src_size))

(* the body of process's for loop for a Transfer *)
process_transfer(accts, t) ==
    with_accounts(ensure_account(ensure_account(accts, t.src), t.dest), t)

(* a purchase: account.deposit(item) *)
item_deposit(a1, item, d) ==
    IF d.raised
    THEN [accounts |-> a1, step |-> [NoStep EXCEPT !.raised = TRUE]]
    ELSE [accounts |-> [a1 EXCEPT ![item.kind] = d.acct], step |-> NoStep]

(* a sale: effective = account.withdraw(abs(item.size)), w.value; then      *)
(* effective.fees += item.fees, pprofit and pfee                            *)
item_withdraw(a1, item, w) ==
    [accounts |-> [a1 EXCEPT ![item.kind] = w.acct],
     step |-> IF w.raised
              THEN [NoStep EXCEPT !.raised = TRUE]
              ELSE [raised |-> FALSE, disposal |-> TRUE,
                    matched |-> w.value,
                    pprofit |-> RSub(item.cost, w.value.cost),
                    pfee |-> RAdd(RAdd(w.value.fees, item.fees), item.fees)]]

(* with_account that deposits a sale as it deposits a purchase *)
with_account_stores_sales(a1, item) ==
    IF item.size # 0
    THEN item_deposit(a1, item, acct_deposit(a1[item.kind], item))
    ELSE [accounts |-> a1, step |-> NoStep]

with_account(a1, item) ==
    IF item.size > 0
    THEN item_deposit(a1, item, acct_deposit(a1[item.kind], item))
    ELSE IF item.size < 0
    THEN item_withdraw(a1, item, acct_withdraw(a1[item.kind], Abs(item.size)))
    ELSE [accounts |-> a1, step |-> NoStep]

(* the body of process's for loop for an Item *)
process_item(accts, item) == with_account(ensure_account(accts, item.kind), item)

(* what the loop does with what item_adapter gave for the group *)
process_adapted(accts, a) ==
    IF a.raised THEN [accounts |-> accts, step |-> [NoStep EXCEPT !.raised = TRUE]]
    ELSE IF a.out = <<>> THEN [accounts |-> accts, step |-> NoStep]
    ELSE IF a.out[1].isTransfer THEN process_transfer(accts, a.out[1].transfer)
    ELSE process_item(accts, a.out[1].item)

(* one turn of `for item in item_adapter(r)` for the next output of group_by *)
process_group(accts, g) ==
    [group |-> g, adapted |-> adapt(g), result |-> process_adapted(accts, adapt(g))]

(* ---------------- the ledger run ---------------- *)
Assets == {"BTC", "ETH"}

SizeInputs == {1, MaxSize}

(* a purchase: USD out, asset in, a fee row *)
PurchaseGroups ==
    { ListGroup(<<Row("match", "1", -MaxCost, "USD", Times[1]),
                  Row("match", "1", s, u, Times[2]),
                  Row("fee", "1", -MaxFee, "USD", Times[3])>>) :
        s \in SizeInputs, u \in Assets }

(* a sale: asset out, USD in, with or without a fee row *)
SaleGroups ==
    { ListGroup(<<Row("match", "1", -s, u, Times[1]),
                  Row("match", "1", MaxCost + 1, "USD", Times[2])>>) :
        s \in SizeInputs, u \in Assets }
    \cup { ListGroup(<<Row("match", "1", -s, u, Times[1]),
                       Row("match", "1", MaxCost + 1, "USD", Times[2]),
                       Row("fee", "1", -MaxFee, "USD", Times[3])>>) :
        s \in SizeInputs, u \in Assets }

(* an asset for asset trade, the two sizes equal or not, and a trade id    *)
(* whose two legs are in one asset                                          *)
SwapGroups ==
    { ListGroup(<<Row("match", "1", -ss, uv[1], Times[1]),
                  Row("match", "1", ds, uv[2], Times[2])>>) :
        ss \in SizeInputs, ds \in SizeInputs,
        uv \in { p \in Assets \X Assets : p[1] # p[2] } }
    \cup { ListGroup(<<Row("match", "1", -1, "BTC", Times[1]),
                       Row("match", "1", MaxSize, "BTC", Times[2])>>) }

(* a trade id with one leg only *)
BrokenGroups ==
    { ListGroup(<<Row("match", "1", -1, "BTC", Times[1]),
                  Row("fee", "1", -MaxFee, "USD", Times[2])>>) }

BoundaryRows ==
    { Row(ty, "", a, u, Times[1]) :
        ty \in {"deposit", "withdrawal"}, a \in {0, MaxSize}, u \in Units }
    \cup { Row("match", "", 1, "BTC", Times[1]) }

Init ==
    /\ AcctIdle
    /\ ClassIdle
    /\ GroupIdle
    /\ LoopIdle
    /\ accounts = PreBound
    /\ profit = R(0)
    /\ fees = R(0)
    /\ nevents = 0
    /\ pstatus = "running"
    /\ last = NoLast

(* the state after one turn of the loop that gave p *)
Processed(p) ==
    /\ accounts' = p.result.accounts
    /\ profit' = RAdd(profit, p.result.step.pprofit)
    /\ fees' = RAdd(fees, p.result.step.pfee)
    /\ pstatus' = IF p.result.step.raised THEN "aborted" ELSE "running"
    /\ last' = [group |-> p.group, adapted |-> p.adapted, step |-> p.result.step]

Process(g) ==
    /\ pstatus = "running"
    /\ nevents < MaxEvents
    /\ Processed(process_group(accounts, g))
    /\ nevents' = nevents + 1
    /\ UNCHANGED <<acctVars, classVars, groupVars, loopVars>>

ProcessTrade == \E g \in PurchaseGroups \cup SaleGroups \cup SwapGroups : Process(g)

ProcessBroken == \E g \in BrokenGroups : Process(g)

ProcessStandalone == \E r \in BoundaryRows : Process(Standalone(r))

Next ==
    \/ ProcessTrade
    \/ ProcessBroken
    \/ ProcessStandalone

Spec == Init /\ [][Next]_vars

(* ---------------- claims about process ---------------- *)
PosSize(accts, k) == IF k \in DOMAIN accts THEN acct_effective_item(accts[k]).size ELSE 0

PosCost(accts, k) == IF k \in DOMAIN accts THEN acct_effective_item(accts[k]).cost ELSE R(0)

PosFees(accts, k) == IF k \in DOMAIN accts THEN acct_effective_item(accts[k]).fees ELSE R(0)

(* C6: for every Disposal processed, with matched = withdraw(abs(size)),    *)
(* profit grows by disposal.cost - matched.cost and fees by matched.fees +  *)
(* disposal.fees (the disposal's own fees once); other events leave the     *)
(* totals as they are.                                                      *)
DisposalStep ==
    (nevents' = nevents + 1) =>
        IF last'.step.disposal
        THEN LET disposal == last'.adapted.out[1].item
                 matched == last'.step.matched
             IN  /\ last'.step.pprofit = RSub(disposal.cost, matched.cost)
                 /\ last'.step.pfee = RAdd(matched.fees, disposal.fees)
                 /\ profit' = RAdd(profit, RSub(disposal.cost, matched.cost))
                 /\ fees' = RAdd(fees, RAdd(matched.fees, disposal.fees))
        ELSE profit' = profit /\ fees' = fees

(* C6: every turn of the loop adds to the totals what the Disposal rule says. *)
C6_DisposalTotals == [][DisposalStep]_vars

(* a step that processed a standalone deposit row *)
DepositRowStep ==
    /\ nevents' = nevents + 1
    /\ ~last'.group.isList
    /\ last'.group.rows[1].type = "deposit"

(* C10 as stated: a standalone deposit row for X with amount a gives        *)
(* Transfer(boundary(X), X, |a|) and raises X's Account size by |a|, the    *)
(* added cost being |a| for the reference currency and 0 for any other      *)
(* unit, the added fees 0.                                                  *)
BoundaryInAsStated ==
    DepositRowStep =>
        LET x == Lower(last'.group.rows[1].unit)
            amt == Abs(last'.group.rows[1].amount)
        IN  /\ ~last'.step.raised
            /\ last'.adapted.out = <<TransferEvent(Transfer("inf_" \o x, amt, x, amt))>>
            /\ PosSize(accounts', x) = PosSize(accounts, x) + amt
            /\ PosCost(accounts', x) =
                   RAdd(PosCost(accounts, x), IF x = "usd" THEN R(amt) ELSE R(0))
            /\ PosFees(accounts', x) = PosFees(accounts, x)

(* C10 as stated, for every deposit row processed. *)
C10_BoundaryInAsStated == [][BoundaryInAsStated]_vars

(* C10 amended: the Transfer is as stated for every X.  When X's account is *)
(* a regular Account (every unit but the reference currency) its size grows *)
(* by |a|; the added cost and fees are 0 when boundary(X) is a pre-bound    *)
(* boundary account, and otherwise they are what the FIFO withdrawal from   *)
(* the lazily created Account boundary(X) gave up (0 when it held nothing). *)
(* The reference currency's own account is a boundary account: its position *)
(* stays zero, and the lot drawn from its boundary costs 1 per unit.        *)
BoundaryIn ==
    DepositRowStep =>
        LET x == Lower(last'.group.rows[1].unit)
            b == "inf_" \o x
            amt == Abs(last'.group.rows[1].amount)
            addedCost == RSub(PosCost(accounts', x), PosCost(accounts, x))
            addedFees == RSub(PosFees(accounts', x), PosFees(accounts, x))
        IN  /\ ~last'.step.raised
            /\ last'.adapted.out = <<TransferEvent(Transfer(b, amt, x, amt))>>
            /\ IF accounts'[x].inf
               THEN /\ x = "usd"
                    /\ acct_effective_item(accounts'[x]) = Item(0, R(0), R(0), "usd", "?")
                    /\ InfAccount_withdraw(accounts'[b], amt).cost = R(amt)
                    /\ InfAccount_withdraw(accounts'[b], amt).fees = R(0)
               ELSE /\ x # "usd"
                    /\ PosSize(accounts', x) = PosSize(accounts, x) + amt
                    /\ IF accounts'[b].inf
                       THEN addedCost = R(0) /\ addedFees = R(0)
                       ELSE /\ addedCost = RSub(PosCost(accounts, b), PosCost(accounts', b))
                            /\ addedFees = RSub(PosFees(accounts, b), PosFees(accounts', b))
                            /\ PosSize(accounts, b) = 0 => (addedCost = R(0) /\ addedFees = R(0))

(* C10 amended, for every deposit row processed. *)
C10_BoundaryIn == [][BoundaryIn]_vars

(* deposit rows for a pre-bound unit and for a unit whose boundary was made *)
(* lazily and holds a withdrawn lot: the second deposit carried that cost   *)
C10_Witness ==
    /\ pstatus = "running"
    /\ ~last.group.isList
    /\ last.group.rows[1].type = "deposit"
    /\ last.group.rows[1].unit = "ETH"
    /\ last.group.rows[1].amount > 0
    /\ "inf_eth" \in DOMAIN accounts
    /\ Len(accounts["eth"].items) >= 1
    /\ accounts["eth"].items[Len(accounts["eth"].items)].size = last.group.rows[1].amount
    /\ accounts["eth"].items[Len(accounts["eth"].items)].cost.n > 0

(* a step that processed a Transfer *)
TransferStep ==
    /\ nevents' = nevents + 1
    /\ ~last'.adapted.raised
    /\ last'.adapted.out # <<>>
    /\ last'.adapted.out[1].isTransfer

(* C14: processing Transfer{src, src_size, dest, dest_size} withdraws       *)
(* src_size from the source account and deposits into the destination one   *)
(* new Lot of size dest_size with the cost and fees of the withdrawn Lot,   *)
(* not rescaled; a regular destination Account holds it as its newest lot;  *)
(* with two regular Accounts the cost and the fees held over the two are    *)
(* as before.                                                               *)
TransferDispatch ==
    TransferStep =>
        LET t == last'.adapted.out[1].transfer
            a0 == ensure_account(ensure_account(accounts, t.src), t.dest)
            w == acct_withdraw(a0[t.src], t.src_size)
            lot == Item(t.dest_size, w.value.cost, w.value.fees, t.dest, "?")
            a1 == [a0 EXCEPT ![t.src] = w.acct]
            both == IF t.src = t.dest THEN {t.src} ELSE {t.src, t.dest}
        IN  /\ ~last'.step.raised
            /\ DOMAIN accounts' = DOMAIN a0
            /\ \A k \in DOMAIN a0 \ both : accounts'[k] = a0[k]
            /\ t.src # t.dest => accounts'[t.src] = w.acct
            /\ ~a0[t.dest].inf =>
                  accounts'[t.dest].items = Append(a1[t.dest].items, lot)
            /\ (~a0[t.src].inf /\ ~a0[t.dest].inf /\ t.src # t.dest) =>
                  /\ RAdd(PosCost(accounts', t.src), PosCost(accounts', t.dest))
                       = RAdd(PosCost(accounts, t.src), PosCost(accounts, t.dest))
                  /\ RAdd(PosFees(accounts', t.src), PosFees(accounts', t.dest))
                       = RAdd(PosFees(accounts, t.src), PosFees(accounts, t.dest))
            /\ (~a0[t.src].inf /\ t.src = t.dest) =>
                  /\ PosCost(accounts', t.src) = PosCost(accounts, t.src)
                  /\ PosFees(accounts', t.src) = PosFees(accounts, t.src)

(* C14: every Transfer processed is dispatched as a withdraw of src_size    *)
(* and a deposit of one Lot of dest_size with the withdrawn cost and fees.  *)
C14_TransferDispatch == [][TransferDispatch]_vars

(* a Transfer between two regular Accounts with dest_size other than        *)
(* src_size: the newest lot of the destination has dest_size and a cost,    *)
(* and the source still holds a part of a lot                               *)
C14_Witness ==
    /\ pstatus = "running"
    /\ last.adapted.out # <<>>
    /\ last.adapted.out[1].isTransfer
    /\ last.adapted.out[1].transfer.src_size # last.adapted.out[1].transfer.dest_size
    /\ last.adapted.out[1].transfer.src = "btc"
    /\ last.adapted.out[1].transfer.dest = "eth"
    /\ Len(accounts["btc"].items) = 1
    /\ accounts["btc"].items[1].cost.d > 1
    /\ accounts["eth"].items[Len(accounts["eth"].items)].size
          = last.adapted.out[1].transfer.dest_size
    /\ accounts["eth"].items[Len(accounts["eth"].items)].cost.d > 1

(* C16: in every state reached by processing events, withdrawals beyond    *)
(* the holdings included, every Lot in the queue of every Account has       *)
(* size >= 0, cost >= 0 and fees >= 0; the negative-size Lot of a Disposal  *)
(* is in no queue.                                                          *)
C16_StoredLotsNonNegative ==
    \A k \in DOMAIN accounts :
        \A i \in 1..Len(accounts[k].items) :
            /\ accounts[k].items[i].size >= 0
            /\ accounts[k].items[i].cost.n >= 0
            /\ accounts[k].items[i].cost.d > 0
            /\ accounts[k].items[i].fees.n >= 0
            /\ accounts[k].items[i].fees.d > 0
            /\ (last.step.disposal /\ ~last.adapted.raised) =>
                  accounts[k].items[i] # last.adapted.out[1].item

(* a Disposal asked for more than its Account held and got a part of it,   *)
(* while another Account holds a lot with cost and fees                     *)
C16_Witness ==
    /\ pstatus = "running"
    /\ last.step.disposal
    /\ last.step.matched.size > 0
    /\ last.step.matched.size < Abs(last.adapted.out[1].item.size)
    /\ accounts[last.adapted.out[1].item.kind].items = <<>>
    /\ \E k \in DOMAIN accounts :
          /\ accounts[k].items # <<>>
          /\ accounts[k].items[1].cost.n > 0
          /\ accounts[k].items[1].fees.n > 0

(* the last turn of the loop called deposit on an account of the dict *)
LastDeposits ==
    /\ nevents > 0
    /\ ~last.adapted.raised
    /\ last.adapted.out # <<>>
    /\ last.adapted.out[1].isTransfer \/ last.adapted.out[1].item.size > 0

(* the kind of the Lot it passed, which is also the key it resolved *)
LastDepositKind ==
    IF last.adapted.out[1].isTransfer
    THEN last.adapted.out[1].transfer.dest
    ELSE last.adapted.out[1].item.kind

(* the run has not ended with the error of Account.deposit: it ends with an *)
(* exception only when item_adapter raised                                  *)
NoKindMismatchAbort ==
    /\ pstatus = "aborted" => last.adapted.raised
    /\ last.step.raised => last.adapted.raised

(* C20 as stated: the account resolved by ensure_account for a deposit has  *)
(* the kind of the Lot deposited into it, and process never ends with the   *)
(* kind-mismatch error.                                                     *)
C20_SameKindAsStated ==
    /\ LastDeposits => accounts[LastDepositKind].kind = LastDepositKind
    /\ NoKindMismatchAbort

(* C20 amended: the account resolved by ensure_account for a deposit is a   *)
(* pre-bound boundary account, whose deposit checks nothing, or a regular   *)
(* Account whose kind is its key and the kind of the Lot; so process never  *)
(* ends with the kind-mismatch error.                                       *)
C20_NoKindMismatch ==
    /\ LastDeposits =>
          \/ accounts[LastDepositKind].inf /\ LastDepositKind \in DOMAIN PreBound
          \/ ~accounts[LastDepositKind].inf
               /\ accounts[LastDepositKind].kind = LastDepositKind
    /\ \A k \in DOMAIN accounts :
          ~accounts[k].inf =>
              /\ accounts[k].kind = k
              /\ \A i \in 1..Len(accounts[k].items) : accounts[k].items[i].kind = k
    /\ NoKindMismatchAbort

(* a withdrawal row put a lot that had a cost into the lazily made Account  *)
(* inf_eth, after a purchase and with no abort                              *)
C20_Witness ==
    /\ pstatus = "running"
    /\ LastDeposits
    /\ LastDepositKind = "inf_eth"
    /\ ~accounts["inf_eth"].inf
    /\ accounts["inf_eth"].items # <<>>
    /\ accounts["inf_eth"].items[Len(accounts["inf_eth"].items)].cost.n > 0

(* the key of the boundary account of a unit *)
BoundaryKey(u) == "inf_" \o Lower(u)

(* a holds no lots, reports a zero Lot, and a withdraw of any size gives    *)
(* Lot{size, size * basis, 0}                                                *)
IsSink(a, basis) ==
    /\ a.items = <<>>
    /\ acct_effective_item(a).size = 0
    /\ acct_effective_item(a).cost = R(0)
    /\ acct_effective_item(a).fees = R(0)
    /\ \A size \in 0..(MaxSize + 1) :
          /\ acct_withdraw(a, size).value.size = size
          /\ acct_withdraw(a, size).value.cost = RScale(basis, size, 1)
          /\ acct_withdraw(a, size).value.fees = R(0)
          /\ acct_withdraw(a, size).acct = a

(* C11 as stated: in every reachable state, for every unit X, the boundary  *)
(* account of X holds no lots, reports a zero Lot, and withdraw(size) gives *)
(* Lot{size, size * basis, 0}, basis 1 for the reference currency and 0 for *)
(* any other unit.                                                          *)
C11_BoundarySinksAsStated ==
    \A u \in Units :
        BoundaryKey(u) \in DOMAIN accounts =>
            IsSink(accounts[BoundaryKey(u)], IF u = "USD" THEN R(1) ELSE R(0))

(* C11 amended: in every reachable state every pre-bound boundary account   *)
(* (usd, inf_usd, inf_btc, inf_ltc) is as it was constructed, whatever was  *)
(* deposited into or withdrawn from it: it holds no lots, reports a zero    *)
(* Lot, and withdraw(size) gives Lot{size, size * basis, 0}.                *)
C11_BoundarySinks ==
    \A k \in DOMAIN PreBound :
        /\ accounts[k] = PreBound[k]
        /\ accounts[k].inf
        /\ IsSink(accounts[k], PreBound[k].basis)

(* a withdrawal row moved a part of a BTC lot that had a cost into inf_btc  *)
C11_Witness ==
    /\ pstatus = "running"
    /\ ~last.group.isList
    /\ last.group.rows[1].type = "withdrawal"
    /\ last.group.rows[1].unit = "BTC"
    /\ last.group.rows[1].amount > 0
    /\ "btc" \in DOMAIN accounts
    /\ Len(accounts["btc"].items) = 1
    /\ accounts["btc"].items[1].cost.d > 1

(* ---------------- claims about Account and Item ---------------- *)

(* C1: a withdraw of more than the Account holds does not raise and returns, *)
(* with the accumulated Lot, a shortfall value max(0, size - accumulated).   *)
C1_WithdrawReturnsShortfall ==
    (op.name = "withdraw" /\ op.size > held) =>
        /\ ~raised
        /\ "shortfall" \in DOMAIN ret
        /\ ret.shortfall = Max(0, op.size - ret.size)

(* C2: for every Lot L held and every s in 0..L.size, take_at_most(s) splits *)
(* L into taken and remainder whose size, cost and fees add up to L's, with  *)
(* taken.size = min(s, L.size) and kind and date copied.                     *)
SplitAdditive(L, s) ==
    LET t == take_at_most(L, s)
    IN  /\ t.taken.size + t.rest.size = L.size
        /\ RAdd(t.taken.cost, t.rest.cost) = L.cost
        /\ RAdd(t.taken.fees, t.rest.fees) = L.fees
        /\ t.taken.size = Min(s, L.size)
        /\ t.taken.kind = L.kind
        /\ t.taken.date = L.date

C2_SplitAdditivity ==
    \A i \in 1..Len(items) : \A s \in 0..items[i].size : SplitAdditive(items[i], s)

(* a held lot that a partial take splits into two parts with cost and fees *)
C2_Witness ==
    \E i \in 1..Len(items) :
        /\ items[i].size >= 2
        /\ items[i].cost.n > 0
        /\ items[i].fees.n > 0
        /\ take_at_most(items[i], 1).rest.cost.n > 0

(* C3: a withdrawal consumes lots oldest first: some number k of the oldest  *)
(* lots are removed, the next lot is at most reduced, every later lot is     *)
(* unchanged; and withdrawing exactly the size of the oldest lot returns     *)
(* that lot's size, cost and fees and leaves the lots behind it unchanged.   *)
IsSuffix(t, q) ==
    /\ Len(t) <= Len(q)
    /\ t = SubSeq(q, Len(q) - Len(t) + 1, Len(q))

FifoStep ==
    (op'.name = "withdraw" /\ ~raised' /\ <<items, op, ret>> # <<items', op', ret'>>) =>
        /\ \E k \in 0..Len(items) :
              \/ items' = SubSeq(items, k + 1, Len(items))
              \/ /\ k < Len(items)
                 /\ Len(items') = Len(items) - k
                 /\ items'[1].size > 0
                 /\ items'[1].size < items[k + 1].size
                 /\ Tail(items') = SubSeq(items, k + 2, Len(items))
        /\ (Len(items) >= 1 /\ op'.size = items[1].size) =>
              /\ ret'.size = items[1].size
              /\ ret'.cost = items[1].cost
              /\ ret'.fees = items[1].fees
              /\ IsSuffix(Tail(items), items')

(* C3: every withdrawal of the Account consumes its lots oldest first. *)
C3_FifoOrder == [][FifoStep]_vars

(* two lots were held, a withdraw of a positive size removed the older one *)
(* whole and the newer one is still held                                   *)
C3_Witness ==
    /\ op.name = "withdraw"
    /\ op.n = 2
    /\ Len(items) = 1
    /\ op.size > 0
    /\ ret.size = op.size
    /\ held = ret.size + items[1].size
    /\ ret.cost.n > 0
    /\ items[1].cost.n = 0

(* C4: a withdraw of s, s no more than the size held, returns size s with   *)
(* the cost and fees of the whole lots consumed plus the share by size of   *)
(* the one lot consumed in part, and the position left is the position      *)
(* before less what was returned.                                           *)
RECURSIVE WholeLots(_, _)
WholeLots(its, s) ==
    IF its = <<>> \/ Head(its).size > s THEN 0
    ELSE 1 + WholeLots(Tail(its), s - Head(its).size)

ExpectedTake(its, s) ==
    LET k == WholeLots(its, s)
        whole == SubSeq(its, 1, k)
        r == s - SumSize(whole)
    IN  IF r > 0
        THEN [size |-> s,
              cost |-> RAdd(SumCost(whole), RScale(its[k + 1].cost, r, its[k + 1].size)),
              fees |-> RAdd(SumFees(whole), RScale(its[k + 1].fees, r, its[k + 1].size))]
        ELSE [size |-> s, cost |-> SumCost(whole), fees |-> SumFees(whole)]

PartialStep ==
    (op'.name = "withdraw" /\ ~raised' /\ <<items, op, ret>> # <<items', op', ret'>>
        /\ op'.size <= SumSize(items)) =>
        LET e == ExpectedTake(items, op'.size)
        IN  /\ ret'.size = op'.size
            /\ ret'.cost = e.cost
            /\ ret'.fees = e.fees
            /\ SumSize(items') = SumSize(items) - ret'.size
            /\ SumCost(items') = RSub(SumCost(items), ret'.cost)
            /\ SumFees(items') = RSub(SumFees(items), ret'.fees)

(* C4: every withdrawal within the holdings returns the closed-form Lot and *)
(* lowers the position by it.                                              *)
C4_PartialAndMultiLot == [][PartialStep]_vars

(* two lots of the largest size were held; a withdraw of one more than that *)
(* size took the first whole and a part of the second                       *)
C4_Witness ==
    /\ op.name = "withdraw"
    /\ op.n = 2
    /\ held = 2 * MaxSize
    /\ op.size = MaxSize + 1
    /\ ret.size = op.size
    /\ Len(items) = 1
    /\ items[1].size = MaxSize - 1
    /\ items[1].cost.n > 0
    /\ items[1].fees.n > 0
    /\ ret.cost.d > 1

(* C12: Account.deposit of a Lot whose kind differs from the Account's kind  *)
(* raises and leaves the Account's lot queue exactly as it was.             *)
RejectedDepositStep ==
    (op'.name = "deposit" /\ op'.kind # AcctKind) =>
        /\ raised'
        /\ items' = items

(* C12: every deposit of a Lot of another kind raises and changes nothing. *)
C12_DepositKindMismatch == [][RejectedDepositStep]_vars

(* a deposit of a Lot of another kind into an Account holding lots raised *)
C12_Witness ==
    /\ raised
    /\ op.name = "deposit"
    /\ op.kind # AcctKind
    /\ op.size > 0
    /\ op.n = Len(items)
    /\ held > 0

(* C15: in every state reachable by deposit and withdraw calls, rejected    *)
(* deposits included, every Lot in the Account's queue has the Account's    *)
(* kind, and the Lot a withdraw returned has that kind.                     *)
C15_KindInvariant ==
    /\ \A i \in 1..Len(items) : items[i].kind = AcctKind
    /\ (op.name = "withdraw") => ret.kind = AcctKind

(* a deposit was rejected while the Account held what an earlier withdraw   *)
(* had left of a lot                                                        *)
C15_Witness ==
    /\ raised
    /\ op.name = "deposit"
    /\ Len(items) >= 1
    /\ items[1].cost.d > 1

(* C5 as stated: whenever the deposited sizes and the requested withdrawal  *)
(* sizes sum to the same total, the position is size 0, cost 0, fees 0.     *)
ZeroPosition ==
    /\ SumSize(items) = 0
    /\ SumCost(items) = R(0)
    /\ SumFees(items) = R(0)

C5_DepletionAsStated == (net = 0) => ZeroPosition

(* C5 amended: the same, provided no withdrawal so far requested more than  *)
(* the Account held when it was made.                                       *)
C5_Depletion == (net = 0 /\ ~short) => ZeroPosition

(* two lots were held and a withdraw within the holdings emptied the Account *)
C5_Witness ==
    /\ net = 0
    /\ ~short
    /\ op.name = "withdraw"
    /\ op.n = 2
    /\ op.size > MaxSize

====
